---- MODULE Spec2Model ----
(***************************************************************************)
(* The Brevo CRM adapter (src/src/services/brevo.js): BrevoClient and its  *)
(* one public operation createContact, as a state machine.  A call is the  *)
(* synchronous prefix of the async function (credential and email checks,  *)
(* body preparation, timer, fetch), followed by the continuations that run *)
(* when the fetch promise and the response.json() promise settle, and by   *)
(* the 10-second timer callback.                                           *)
(*                                                                         *)
(* JavaScript strings are sequences of one-character strings, so that      *)
(* trim(), RegExp.test() and String.includes() are computed, not assumed.  *)
(*                                                                         *)
(* Beside the adapter, three other parts of the page, each with its own    *)
(* specification: the anonymous LaunchDarkly user and the client ID        *)
(* (config/launchdarkly.js), the start-up of the application (main.jsx)    *)
(* and the contact form (components/ContactForm.jsx).                      *)
(***************************************************************************)
EXTENDS Naturals, Sequences, FiniteSets, TLC

(***************************************************************************)
(* Bounds of the model.                                                    *)
(***************************************************************************)
\* longest email enumerated character by character
MaxEmailLen == 6
\* longest credential enumerated character by character
MaxKeyLen == 2
\* most calls of generateAnonymousUser and clearAnonymousUser in a run
MaxUserCalls == 4
\* most submissions of the contact form in a run
MaxSubmits == 2

(***************************************************************************)
(* JavaScript values.                                                      *)
(***************************************************************************)
Undefined == [t |-> "undefined", s |-> <<>>]
Null == [t |-> "null", s |-> <<>>]
Str(chars) == [t |-> "string", s |-> chars]
Bool(b) == [t |-> "boolean", s |-> <<>>, b |-> b]
\* a number, by its decimal digits
Num(digits) == [t |-> "number", s |-> digits]
\* a plain object: its own enumerable properties, and whether it holds a
\* value JSON.stringify throws on (a cycle, a BigInt)
Obj(fields, serialisable) ==
  [t |-> "object", s |-> <<>>, fields |-> fields, serialisable |-> serialisable]

\* ToBoolean, as used by `!x`, `x && y`, `x || y`
Truthy(v) ==
  CASE v.t = "undefined" -> FALSE
    [] v.t = "null" -> FALSE
    [] v.t = "string" -> v.s # <<>>
    [] v.t = "number" -> v.s # <<"0">>
    [] v.t = "boolean" -> v.b
    [] OTHER -> TRUE

\* the characters String.prototype.trim strips and the class \s matches
WhiteSpace == {" ", "\t", "\n"}

RECURSIVE trimStart(_)
trimStart(str) ==
  IF str # <<>> /\ Head(str) \in WhiteSpace THEN trimStart(Tail(str)) ELSE str

RECURSIVE trimEnd(_)
trimEnd(str) ==
  IF str # <<>> /\ str[Len(str)] \in WhiteSpace
  THEN trimEnd(SubSeq(str, 1, Len(str) - 1))
  ELSE str

\* String.prototype.trim
trim(str) == trimEnd(trimStart(str))

\* String.prototype.includes
includes(str, sub) ==
  \E i \in 1..(Len(str) + 1) :
    /\ i + Len(sub) - 1 <= Len(str)
    /\ SubSeq(str, i, i + Len(sub) - 1) = sub

(***************************************************************************)
(* const emailRegex = /^[^\s@]+@[^\s@]+\.[^\s@]+$/                         *)
(***************************************************************************)
\* the class [^\s@]
NotSpaceOrAt(ch) == ch \notin WhiteSpace /\ ch # "@"

\* [^\s@]+ matches str[from..to] exactly
ClassPlus(str, from, to) ==
  /\ from <= to
  /\ \A k \in from..to : NotSpaceOrAt(str[k])

\* a slip: the pattern asks for no dot in the domain, /^[^\s@]+@[^\s@]+$/
emailRegexTestNoDot(str) ==
  \E i \in 1..Len(str) :
    /\ ClassPlus(str, 1, i - 1)
    /\ str[i] = "@"
    /\ ClassPlus(str, i + 1, Len(str))

\* emailRegex.test(str): some split  [^\s@]+ @ [^\s@]+ \. [^\s@]+  of all of str
emailRegexTest(str) ==
  \E i \in 1..Len(str) : \E j \in 1..Len(str) :
    /\ ClassPlus(str, 1, i - 1)
    /\ str[i] = "@"
    /\ ClassPlus(str, i + 1, j - 1)
    /\ str[j] = "."
    /\ ClassPlus(str, j + 1, Len(str))

(***************************************************************************)
(* The values createContact returns.                                       *)
(***************************************************************************)
\* a slip: the failure value also carries a data field
FailureWithData(message) ==
  [success |-> FALSE, error |-> message, data |-> Null]

Failure(message) == [success |-> FALSE, error |-> message]
Success(data) == [success |-> TRUE, data |-> data]
\* no value yet: the promise is pending
Pending == [pending |-> TRUE]

KeyEmptyMessage == "Brevo API key cannot be empty"
KeyMissingMessage ==
  "Brevo API key is not configured. Set VITE_BREVO_API_KEY environment variable."
EmailRequiredMessage == "Email is required and must be a non-empty string"
EmailFormatMessage == "Invalid email format"

(***************************************************************************)
(* Thrown values.                                                          *)
(***************************************************************************)
\* an Error object: its name property, its class (instanceof) and its message
Err(name, class, message) ==
  [t |-> "object", s |-> <<>>, name |-> name, class |-> class,
   message |-> message]

\* what `x.name` or `x.id` throws when x is undefined or null
PropertyOfNullish ==
  Err("TypeError", "TypeError",
      <<"C", "a", "n", "n", "o", "t", " ", "r", "e", "a", "d", " ",
        "p", "r", "o", "p", "e", "r", "t", "i", "e", "s">>)

\* what JSON.stringify throws on a cycle
CircularStructure ==
  Err("TypeError", "TypeError",
      <<"C", "o", "n", "v", "e", "r", "t", "i", "n", "g", " ",
        "c", "i", "r", "c", "u", "l", "a", "r", " ",
        "s", "t", "r", "u", "c", "t", "u", "r", "e", " ",
        "t", "o", " ", "J", "S", "O", "N">>)

(***************************************************************************)
(* State.                                                                  *)
(***************************************************************************)
\* the calls that may be made on the one adapter
CallIds == {1, 2}

VARIABLES
  apiKey,       \* this.apiKey
  baseUrl,      \* this.baseUrl
  pc,           \* per call: idle, awaitFetch, awaitJson, returned, rejected
  contactData,  \* per call: the argument of the call
  body,         \* per call: the request body prepared (const body)
  requests,     \* per call: the fetch requests issued, in order
  timeoutId,    \* per call: the timer: none, armed, cleared, fired
  aborted,      \* per call: controller.signal.aborted
  response,     \* per call: the HTTP status of the response, 0 when none
  result,       \* per call: the value the promise resolved to
  thrown,       \* per call: the value the promise rejected with
  log,          \* per call: the console.error calls, in order
  responseBody, \* per call: what response.json() resolved to (responseData)
  caught        \* per call: the values the catch block was entered with

adapterVars ==
  << apiKey, baseUrl, pc, contactData, body, requests, timeoutId, aborted,
     response, result, thrown, log, responseBody, caught >>

\* config/launchdarkly.js: the anonymous user
VARIABLES
  localStorage, \* the item 'ld_anonymous_user_key': null, or the string stored
  storageMode,  \* whether localStorage works: ok, writeThrows, throws
  uuids,        \* how many times crypto.randomUUID() has been drawn
  users,        \* the calls made, in order, with the user each one returned
  userLog       \* the console.warn calls, in order

userVars == << localStorage, storageMode, uuids, users, userLog >>

\* main.jsx: the start-up of the application
VARIABLES
  clientIdEnv,   \* import.meta.env.VITE_LAUNCHDARKLY_CLIENT_ID
  readyState,    \* document.readyState when the module is evaluated
  rootElement,   \* whether document.getElementById('root') finds an element
  provider,      \* what asyncWithLDProvider(config) gives back
  appPc,         \* load, waitDom, awaitProvider, done
  clientSideID,  \* ldConfig.clientSideID
  providerCalls, \* the configurations asyncWithLDProvider was called with
  rendered,      \* what createRoot(rootElement).render was given
  appLog,        \* the console.warn and console.error calls, in order
  captured       \* the values handed to Sentry.captureException

appVars ==
  << clientIdEnv, readyState, rootElement, provider, appPc, clientSideID,
     providerCalls, rendered, appLog, captured >>

\* components/ContactForm.jsx: the contact form
VARIABLES
  flags,         \* what useFlags() returns
  fields,        \* the values typed into name, email and message
  formState,     \* useForm's state: succeeded, submitting, errors
  submitted,     \* the submissions handed to Formspree's handleSubmit
  brevoCalls,    \* the arguments the component called createContact with
  formLog,       \* the console.error calls of the component
  adapter        \* how BrevoClient.createContact answers a call

formVars ==
  << flags, fields, formState, submitted, brevoCalls, formLog, adapter >>

vars == << adapterVars, userVars, appVars, formVars >>

(***************************************************************************)
(* constructor(apiKey = import.meta.env?.VITE_BREVO_API_KEY)               *)
(***************************************************************************)
\* a default parameter value applies when the argument is undefined
constructorApiKey(arg, env) == IF arg.t = "undefined" THEN env ELSE arg

BaseUrl == "https://api.brevo.com/v3"

(***************************************************************************)
(* createContact, lines 24-57: the preconditions.                          *)
(***************************************************************************)
NoFailure == ""

\* a slip: the absence check comes first, so "" is reported as absent
credentialFailureAbsentFirst(key) ==
  IF ~Truthy(key) THEN KeyMissingMessage
  ELSE IF key.t = "string" /\ trim(key.s) = <<>> THEN KeyEmptyMessage
  ELSE NoFailure

\* a slip: the emptiness check compares without trimming
credentialFailureNoTrim(key) ==
  IF key.t = "string" /\ key.s = <<>> THEN KeyEmptyMessage
  ELSE IF ~Truthy(key) THEN KeyMissingMessage
  ELSE NoFailure

\* lines 26-38
credentialFailure(key) ==
  IF key.t = "string" /\ trim(key.s) = <<>> THEN KeyEmptyMessage
  ELSE IF ~Truthy(key) THEN KeyMissingMessage
  ELSE NoFailure

\* line 48
trimmedEmail(email) == trim(email.s)

\* a slip: the typeof check is missing
emailFailureNoTypeCheck(email) ==
  IF ~Truthy(email) THEN EmailRequiredMessage
  ELSE IF ~emailRegexTest(trimmedEmail(email)) THEN EmailFormatMessage
  ELSE NoFailure

\* lines 41-57
emailFailure(email) ==
  IF ~Truthy(email) \/ email.t # "string" THEN EmailRequiredMessage
  ELSE IF ~emailRegexTest(trimmedEmail(email)) THEN EmailFormatMessage
  ELSE NoFailure

\* a slip: the email is validated before the credential
preconditionFailureEmailFirst(key, email) ==
  IF emailFailure(email) # NoFailure THEN emailFailure(email)
  ELSE credentialFailure(key)

\* the checks in their order: the first that fails decides the message
preconditionFailure(key, email) ==
  IF credentialFailure(key) # NoFailure THEN credentialFailure(key)
  ELSE emailFailure(email)

(***************************************************************************)
(* createContact, lines 23 and 59-65: the parameters and the body.         *)
(***************************************************************************)
\* an object literal passed as the argument; a missing property is undefined
ContactData(email, firstName, lastName, attributes) ==
  [t |-> "object", s |-> <<>>, email |-> email, firstName |-> firstName,
   lastName |-> lastName, attributes |-> attributes]

\* destructuring a parameter that is undefined or null throws a TypeError
destructuringThrows(arg) == arg.t \in {"undefined", "null"}

EmptyObject == Obj({}, TRUE)

\* `attributes = {}`: the default applies to undefined only
attributesParam(arg) ==
  IF arg.attributes.t = "undefined" THEN EmptyObject ELSE arg.attributes

\* a slip: the optional fields are always copied into the body
bodyKeysAlways(arg) == {"email", "attributes", "firstName", "lastName"}

\* `...(firstName && { firstName })`: spreading a falsy value adds nothing
bodyKeys(arg) ==
  {"email", "attributes"}
    \cup (IF Truthy(arg.firstName) THEN {"firstName"} ELSE {})
    \cup (IF Truthy(arg.lastName) THEN {"lastName"} ELSE {})

\* a slip: the body carries the email as given, not the trimmed one
requestBodyUntrimmed(arg) ==
  [k \in bodyKeys(arg) |->
    CASE k = "email" -> arg.email
      [] k = "firstName" -> arg.firstName
      [] k = "lastName" -> arg.lastName
      [] OTHER -> attributesParam(arg)]

\* const body = { email: trimmedEmail, ..., attributes }
requestBody(arg) ==
  [k \in bodyKeys(arg) |->
    CASE k = "email" -> Str(trimmedEmail(arg.email))
      [] k = "firstName" -> arg.firstName
      [] k = "lastName" -> arg.lastName
      [] OTHER -> attributesParam(arg)]

NoBody == [k \in {} |-> Undefined]

\* JSON.stringify(body) throws when a value holds a cycle
stringifyThrows(b) ==
  \E k \in DOMAIN b : b[k].t = "object" /\ ~b[k].serialisable

\* a slip: the credential is trimmed on its way into the header
RequestTrimmedKey(url, key, b) ==
  [url |-> url, method |-> "POST",
   apiKeyHeader |-> IF key.t = "string" THEN Str(trim(key.s)) ELSE key,
   contentType |-> "application/json", body |-> b]

\* the request handed to fetch
Request(url, key, b) ==
  [url |-> url, method |-> "POST", apiKeyHeader |-> key,
   contentType |-> "application/json", body |-> b]

(***************************************************************************)
(* createContact, lines 126-160: the catch block.                          *)
(***************************************************************************)
LogLine(text, args) == [text |-> text, args |-> args]

\* `error.name` itself throws when the caught value is undefined or null
catchThrows(error) == error.t \in {"undefined", "null"}

\* error.name; undefined ("") on a primitive
errorName(error) == IF error.t = "object" THEN error.name ELSE ""

\* error.message; undefined on a primitive
errorMessageOf(error) ==
  IF error.t = "object" THEN Str(error.message) ELSE Undefined

\* error instanceof TypeError && error.message.includes('fetch')
isFetchTypeError(error) ==
  /\ error.t = "object"
  /\ error.class = "TypeError"
  /\ includes(error.message, <<"f", "e", "t", "c", "h">>)

isSyntaxError(error) == error.t = "object" /\ error.class = "SyntaxError"

\* the message returned by the catch block
catchMessage(error) ==
  IF errorName(error) = "AbortError" THEN "Request timeout"
  ELSE IF isFetchTypeError(error) THEN "Network error"
  ELSE IF isSyntaxError(error) THEN "Invalid API response format"
  ELSE "Unexpected error occurred"

\* the console.error call of the catch block
catchLog(error) ==
  IF errorName(error) = "AbortError"
  THEN LogLine("Brevo API request timeout", <<>>)
  ELSE IF isFetchTypeError(error)
  THEN LogLine("Brevo API network error", <<>>)
  ELSE IF isSyntaxError(error)
  THEN LogLine("Brevo API returned invalid JSON", <<>>)
  ELSE LogLine("Brevo API unexpected error:", <<errorMessageOf(error)>>)

(***************************************************************************)
(* How a call ends.                                                        *)
(***************************************************************************)
\* return value: the promise resolves
Return(c, value, lines) ==
  /\ pc' = [pc EXCEPT ![c] = "returned"]
  /\ result' = [result EXCEPT ![c] = value]
  /\ log' = [log EXCEPT ![c] = @ \o lines]
  /\ UNCHANGED thrown

\* an exception leaves the async function: the promise rejects
Reject(c, error) ==
  /\ pc' = [pc EXCEPT ![c] = "rejected"]
  /\ thrown' = [thrown EXCEPT ![c] = error]
  /\ UNCHANGED << result, log >>

\* a slip: the catch block returns without logging
CatchSilent(c, error) ==
  /\ caught' = [caught EXCEPT ![c] = Append(@, error)]
  /\ IF catchThrows(error)
     THEN Reject(c, PropertyOfNullish)
     ELSE Return(c, Failure(catchMessage(error)), <<>>)

\* an exception inside the try block: the catch block runs
Catch(c, error) ==
  /\ caught' = [caught EXCEPT ![c] = Append(@, error)]
  /\ IF catchThrows(error)
     THEN Reject(c, PropertyOfNullish)
     ELSE Return(c, Failure(catchMessage(error)), <<catchLog(error)>>)

\* a slip: the request is sent before the input is validated
createContactFetchFirst(c, arg) ==
  /\ pc[c] = "idle"
  /\ contactData' = [contactData EXCEPT ![c] = arg]
  /\ UNCHANGED << apiKey, baseUrl, aborted, response, body, responseBody,
                  caught >>
  /\ timeoutId' = [timeoutId EXCEPT ![c] = "armed"]
  /\ requests' =
       [requests EXCEPT ![c] =
         Append(@, Request(baseUrl \o "/contacts", apiKey, NoBody))]
  /\ IF destructuringThrows(arg)
     THEN Reject(c, PropertyOfNullish)
     ELSE IF preconditionFailure(apiKey, arg.email) # NoFailure
     THEN Return(c, Failure(preconditionFailure(apiKey, arg.email)), <<>>)
     ELSE /\ pc' = [pc EXCEPT ![c] = "awaitFetch"]
          /\ UNCHANGED << result, thrown, log >>

(***************************************************************************)
(* createContact, lines 23-79: from the call to the first await.           *)
(***************************************************************************)
createContact(c, arg) ==
  /\ pc[c] = "idle"
  /\ contactData' = [contactData EXCEPT ![c] = arg]
  /\ UNCHANGED << apiKey, baseUrl, aborted, response, responseBody >>
  /\ IF destructuringThrows(arg)
     THEN /\ Reject(c, PropertyOfNullish)
          /\ UNCHANGED << body, requests, timeoutId, caught >>
     ELSE IF preconditionFailure(apiKey, arg.email) # NoFailure
     THEN /\ Return(c, Failure(preconditionFailure(apiKey, arg.email)), <<>>)
          /\ UNCHANGED << body, requests, timeoutId, caught >>
     ELSE /\ body' = [body EXCEPT ![c] = requestBody(arg)]
          \* setTimeout(() => controller.abort(), 10000)
          /\ timeoutId' = [timeoutId EXCEPT ![c] = "armed"]
          /\ IF stringifyThrows(requestBody(arg))
             THEN /\ Catch(c, CircularStructure)
                  /\ UNCHANGED requests
             ELSE /\ requests' =
                       [requests EXCEPT ![c] =
                         Append(@, Request(baseUrl \o "/contacts", apiKey,
                                           requestBody(arg)))]
                  /\ pc' = [pc EXCEPT ![c] = "awaitFetch"]
                  /\ UNCHANGED << result, thrown, log, caught >>

(***************************************************************************)
(* createContact, lines 81-124: after the fetch promise has resolved.      *)
(***************************************************************************)
\* response.ok: the status is in the range 200-299
responseOk(status) == status >= 200 /\ status <= 299

\* lines 109-116
errorMessages ==
  (400 :> "Bad request - validation error")
    @@ (401 :> "Invalid API key")
    @@ (403 :> "Insufficient API key permissions")
    @@ (429 :> "Rate limit exceeded")
    @@ (500 :> "Brevo server error")
    @@ (503 :> "Brevo service unavailable")

\* line 118: errorMessages[response.status] || `API error: ${response.status}`
errorMessage(status) ==
  IF status \in DOMAIN errorMessages
  THEN errorMessages[status]
  ELSE "API error: " \o ToString(status)

\* reading `.id` of undefined or null throws a TypeError
idThrows(responseData) == responseData.t \in {"undefined", "null"}

\* responseData.id: undefined when the value has no such property
idOf(responseData) ==
  IF responseData.t = "object" /\ \E f \in responseData.fields : f[1] = "id"
  THEN (CHOOSE f \in responseData.fields : f[1] = "id")[2]
  ELSE Undefined

\* a slip: the id of the response is not copied into the result
successDataIdNull(responseData, b) ==
  [id |-> Null, email |-> b["email"]]

\* lines 87-93
successData(responseData, b) ==
  [id |-> idOf(responseData), email |-> b["email"]]

\* lines 98-105: responseData.id || null
duplicateData(responseData, b) ==
  [id |-> IF Truthy(idOf(responseData)) THEN idOf(responseData) ELSE Null,
   email |-> b["email"], duplicate |-> TRUE]

\* a slip: clearTimeout is not called when the response arrives
FetchResolvedNoClear(c, status) ==
  /\ pc[c] = "awaitFetch"
  /\ response' = [response EXCEPT ![c] = status]
  /\ pc' = [pc EXCEPT ![c] = "awaitJson"]
  /\ UNCHANGED << apiKey, baseUrl, contactData, body, requests, aborted,
                  result, thrown, log, responseBody, caught, timeoutId >>

\* a slip: the timer is kept in a field of the adapter, so that clearing it
\* clears the timer of every call
FetchResolvedSharedTimer(c, status) ==
  /\ pc[c] = "awaitFetch"
  /\ timeoutId' =
       [d \in CallIds |->
          IF timeoutId[d] = "armed" THEN "cleared" ELSE timeoutId[d]]
  /\ response' = [response EXCEPT ![c] = status]
  /\ pc' = [pc EXCEPT ![c] = "awaitJson"]
  /\ UNCHANGED << apiKey, baseUrl, contactData, body, requests, aborted,
                  result, thrown, log, responseBody, caught >>

\* lines 81-83: the fetch promise resolves; the timer is cleared and the
\* body is read
FetchResolved(c, status) ==
  /\ pc[c] = "awaitFetch"
  /\ timeoutId' = [timeoutId EXCEPT ![c] = "cleared"]
  /\ response' = [response EXCEPT ![c] = status]
  /\ pc' = [pc EXCEPT ![c] = "awaitJson"]
  /\ UNCHANGED << apiKey, baseUrl, contactData, body, requests, aborted,
                  result, thrown, log, responseBody, caught >>

\* a slip: a rejected request is sent again once before the call gives up
FetchRejectedRetry(c, error) ==
  /\ pc[c] = "awaitFetch"
  /\ IF Len(requests[c]) < 2
     THEN /\ requests' = [requests EXCEPT ![c] = Append(@, @[1])]
          /\ UNCHANGED << pc, result, thrown, log, caught >>
     ELSE /\ Catch(c, error)
          /\ UNCHANGED requests
  /\ UNCHANGED << apiKey, baseUrl, contactData, body, timeoutId, aborted,
                  response, responseBody >>

\* the fetch promise rejects: control passes to the catch block, and line 81
\* (clearTimeout) is skipped
FetchRejected(c, error) ==
  /\ pc[c] = "awaitFetch"
  /\ Catch(c, error)
  /\ UNCHANGED << apiKey, baseUrl, contactData, body, requests, timeoutId,
                  aborted, response, responseBody >>

\* what fetch rejects with when its signal is aborted
AbortError ==
  Err("AbortError", "DOMException",
      <<"T", "h", "e", " ", "o", "p", "e", "r", "a", "t", "i", "o", "n", " ",
        "w", "a", "s", " ", "a", "b", "o", "r", "t", "e", "d">>)

\* line 69: the timer callback, controller.abort(); a fetch that is still
\* pending rejects with an AbortError
TimeoutFired(c) ==
  /\ timeoutId[c] = "armed"
  /\ timeoutId' = [timeoutId EXCEPT ![c] = "fired"]
  /\ aborted' = [aborted EXCEPT ![c] = TRUE]
  /\ IF pc[c] = "awaitFetch"
     THEN Catch(c, AbortError)
     ELSE UNCHANGED << pc, result, thrown, log, caught >>
  /\ UNCHANGED << apiKey, baseUrl, contactData, body, requests, response,
                  responseBody >>

\* lines 83-124: the response.json() promise resolves
JsonResolved(c, responseData) ==
  /\ pc[c] = "awaitJson"
  /\ responseBody' = [responseBody EXCEPT ![c] = responseData]
  /\ IF responseOk(response[c])
     THEN IF idThrows(responseData)
          THEN Catch(c, PropertyOfNullish)
          ELSE /\ Return(c, Success(successData(responseData, body[c])),
                         <<>>)
               /\ UNCHANGED caught
     ELSE IF response[c] = 409
     THEN IF idThrows(responseData)
          THEN Catch(c, PropertyOfNullish)
          ELSE /\ Return(c, Success(duplicateData(responseData, body[c])),
                         <<>>)
               /\ UNCHANGED caught
     ELSE /\ Return(c, Failure(errorMessage(response[c])),
                    << LogLine("Brevo API error: "
                                 \o errorMessage(response[c]), <<>>) >>)
          /\ UNCHANGED caught
  /\ UNCHANGED << apiKey, baseUrl, contactData, body, requests, timeoutId,
                  aborted, response >>

\* line 83: the response.json() promise rejects
JsonRejected(c, error) ==
  /\ pc[c] = "awaitJson"
  /\ Catch(c, error)
  /\ UNCHANGED << apiKey, baseUrl, contactData, body, requests, timeoutId,
                  aborted, response, responseBody >>

(***************************************************************************)
(* Inputs.                                                                 *)
(***************************************************************************)
\* every string over an alphabet, up to a length
Strings(alphabet, n) == UNION { [1..m -> alphabet] : m \in 0..n }

KeyAlphabet == {"k", " "}
ApiKeyArgs ==
  {Undefined, Null, Num(<<"0">>), Num(<<"5">>)}
    \cup { Str(k) : k \in Strings(KeyAlphabet, MaxKeyLen) }
\* import.meta.env?.VITE_BREVO_API_KEY
EnvValues == {Undefined, Str(<<"k">>)}

InvalidExamples ==
  { <<"n", "o", "t", "a", "n", "e", "m", "a", "i", "l">>,
    <<"@", "e", "x", "a", "m", "p", "l", "e", ".", "c", "o", "m">>,
    <<"u", "s", "e", "r", "@">>,
    <<"u", "s", "e", "r", " ", "@", "e", "x", "a", "m", "p", "l", "e", ".",
      "c", "o", "m">>,
    <<"u", "s", "e", "r", "@", "e", "x", "a", "m", "p", "l", "e">>,
    <<" ", " ", " ">> }

ValidExamples ==
  { <<"s", "i", "m", "p", "l", "e", "@", "e", "x", "a", "m", "p", "l", "e",
      ".", "c", "o", "m">>,
    <<"u", "s", "e", "r", "+", "t", "a", "g", "@", "e", "x", "a", "m", "p",
      "l", "e", ".", "c", "o", ".", "u", "k">>,
    <<"u", "s", "e", "r", ".", "n", "a", "m", "e", "@", "e", "x", "a", "m",
      "p", "l", "e", ".", "c", "o", "m">>,
    <<"u", "s", "e", "r", "_", "n", "a", "m", "e", "@", "e", "x", "a", "m",
      "p", "l", "e", ".", "c", "o", "m">> }

UserAtExample ==
  <<"u", "s", "e", "r", "@", "e", "x", "a", "m", "p", "l", "e", ".",
    "c", "o", "m">>

\* the emails of the adapter's calls
Emails ==
  { Undefined, Null, Num(<<"0">>), Num(<<"5">>), Str(<<>>),
    Str(<<" ", " ", " ">>), Str(<<"u", "s", "e", "r", "@">>),
    Str(UserAtExample), Str(<<" ", " ">> \o UserAtExample \o <<" ", " ">>) }

FirstNames == {Undefined, Str(<<>>), Str(<<"A", "l">>)}
LastNames == {Undefined, Str(<<"D", "o">>)}
AttributeValues ==
  { Undefined, Null, EmptyObject,
    Obj({<<"message", Str(<<"h", "i">>)>>}, TRUE),
    Obj({<<"self", Null>>}, FALSE) }

Submissions ==
  {Undefined}
    \cup { ContactData(e, f, l, a) :
             e \in Emails, f \in FirstNames, l \in LastNames,
             a \in AttributeValues }

(***************************************************************************)
(* Specifications.                                                         *)
(***************************************************************************)
\* no call of createContact has been made
NoCalls ==
  /\ baseUrl = BaseUrl
  /\ pc = [c \in CallIds |-> "idle"]
  /\ contactData = [c \in CallIds |-> Undefined]
  /\ body = [c \in CallIds |-> NoBody]
  /\ requests = [c \in CallIds |-> <<>>]
  /\ timeoutId = [c \in CallIds |-> "none"]
  /\ aborted = [c \in CallIds |-> FALSE]
  /\ response = [c \in CallIds |-> 0]
  /\ result = [c \in CallIds |-> Pending]
  /\ thrown = [c \in CallIds |-> Undefined]
  /\ log = [c \in CallIds |-> <<>>]
  /\ responseBody = [c \in CallIds |-> Undefined]
  /\ caught = [c \in CallIds |-> <<>>]

\* the parts of the page that a specification leaves alone
UserIdle ==
  /\ localStorage = Null
  /\ storageMode = "ok"
  /\ uuids = 0
  /\ users = <<>>
  /\ userLog = <<>>

AppIdle ==
  /\ clientIdEnv = Undefined
  /\ readyState = "complete"
  /\ rootElement = TRUE
  /\ provider = [returns |-> "promise", initialization |-> "succeeds"]
  /\ appPc = "load"
  /\ clientSideID = Undefined
  /\ providerCalls = <<>>
  /\ rendered = "nothing"
  /\ appLog = <<>>
  /\ captured = <<>>

FormIdle ==
  /\ flags = EmptyObject
  /\ fields = [name |-> <<>>, email |-> <<>>, message |-> <<>>]
  /\ formState = [succeeded |-> FALSE, submitting |-> FALSE, errors |-> <<>>]
  /\ submitted = <<>>
  /\ brevoCalls = <<>>
  /\ formLog = <<>>
  /\ adapter = "succeeds"

Init ==
  /\ \E arg \in ApiKeyArgs : \E e \in EnvValues :
       apiKey = constructorApiKey(arg, e)
  /\ NoCalls
  /\ UserIdle
  /\ AppIdle
  /\ FormIdle

\* the call the adapter's contract is checked on: the first one
TheCall == CHOOSE c \in CallIds : \A d \in CallIds : c <= d

Call ==
  /\ pc[TheCall] = "idle"
  /\ \E arg \in Submissions : createContact(TheCall, arg)
  /\ UNCHANGED << userVars, appVars, formVars >>

\* what the network and the remote may do
Statuses == {200, 201, 400, 401, 403, 404, 409, 429, 500, 503}

ResponseBodies ==
  { Obj({<<"id", Num(<<"1", "2", "3">>)>>}, TRUE),
    Obj({<<"id", Num(<<"0">>)>>}, TRUE), EmptyObject, Null }

FetchErrors ==
  { AbortError,
    Err("TypeError", "TypeError",
        <<"F", "a", "i", "l", "e", "d", " ", "t", "o", " ",
          "f", "e", "t", "c", "h">>),
    Err("TypeError", "TypeError",
        <<"L", "o", "a", "d", " ", "f", "a", "i", "l", "e", "d">>),
    Err("Error", "Error",
        <<"U", "n", "e", "x", "p", "e", "c", "t", "e", "d", " ",
          "e", "r", "r", "o", "r">>),
    Str(<<"o", "o", "p", "s">>), Null, Undefined }

\* a rejection whose message repeats the value of the api-key header, as the
\* rejection of a header value the platform refuses does
HeaderErrors(key) ==
  IF key.t = "string"
  THEN { Err("TypeError", "TypeError",
             <<"i", "n", "v", "a", "l", "i", "d", " ", "h", "e", "a", "d",
               "e", "r", " ">> \o key.s) }
  ELSE {}

JsonErrors ==
  { Err("SyntaxError", "SyntaxError",
        <<"U", "n", "e", "x", "p", "e", "c", "t", "e", "d", " ",
          "t", "o", "k", "e", "n">>),
    AbortError }

Resolve ==
  /\ \E status \in Statuses : FetchResolved(TheCall, status)
  /\ UNCHANGED << userVars, appVars, formVars >>

RejectFetch ==
  /\ \E error \in FetchErrors \cup HeaderErrors(apiKey) :
       FetchRejected(TheCall, error)
  /\ UNCHANGED << userVars, appVars, formVars >>

Timeout ==
  /\ TimeoutFired(TheCall)
  /\ UNCHANGED << userVars, appVars, formVars >>

ResolveJson ==
  /\ \E data \in ResponseBodies : JsonResolved(TheCall, data)
  /\ UNCHANGED << userVars, appVars, formVars >>

RejectJson ==
  /\ \E error \in JsonErrors : JsonRejected(TheCall, error)
  /\ UNCHANGED << userVars, appVars, formVars >>

Next == Call \/ Resolve \/ RejectFetch \/ Timeout \/ ResolveJson \/ RejectJson

Spec == Init /\ [][Next]_vars

\* the event loop runs the callback of a timer that stays armed; nothing
\* obliges the network or the remote to answer
SpecLive == Init /\ [][Next]_vars /\ WF_vars(Timeout)

(***************************************************************************)
(* Two calls on the one adapter, interleaved in every order (a rapid       *)
(* double submit), with a few submissions and a few answers of the remote. *)
(***************************************************************************)
ConcurrentSubmissions ==
  { Undefined,
    ContactData(Str(UserAtExample), Undefined, Undefined, Undefined),
    ContactData(Str(<<"u", "s", "e", "r", "@">>), Undefined, Undefined,
                Undefined) }

ConcurrentStatuses == {201, 409, 500}

ConcurrentBodies == { Obj({<<"id", Num(<<"1", "2", "3">>)>>}, TRUE), Null }

ConcurrentErrors ==
  { Err("TypeError", "TypeError",
        <<"F", "a", "i", "l", "e", "d", " ", "t", "o", " ",
          "f", "e", "t", "c", "h">>),
    Null }

CallAny ==
  \E c \in CallIds :
    /\ pc[c] = "idle"
    /\ \E arg \in ConcurrentSubmissions : createContact(c, arg)
    /\ UNCHANGED << userVars, appVars, formVars >>

ResolveAny ==
  /\ \E c \in CallIds : \E status \in ConcurrentStatuses :
       FetchResolved(c, status)
  /\ UNCHANGED << userVars, appVars, formVars >>

RejectFetchAny ==
  /\ \E c \in CallIds : \E error \in ConcurrentErrors :
       FetchRejected(c, error)
  /\ UNCHANGED << userVars, appVars, formVars >>

TimeoutAny ==
  /\ \E c \in CallIds : TimeoutFired(c)
  /\ UNCHANGED << userVars, appVars, formVars >>

ResolveJsonAny ==
  /\ \E c \in CallIds : \E data \in ConcurrentBodies :
       JsonResolved(c, data)
  /\ UNCHANGED << userVars, appVars, formVars >>

RejectJsonAny ==
  /\ \E c \in CallIds : \E error \in JsonErrors : JsonRejected(c, error)
  /\ UNCHANGED << userVars, appVars, formVars >>

NextConcurrent ==
  \/ CallAny \/ ResolveAny \/ RejectFetchAny \/ TimeoutAny
  \/ ResolveJsonAny \/ RejectJsonAny

SpecConcurrent == Init /\ [][NextConcurrent]_vars

(***************************************************************************)
(* The validation of the email alone: every string over a small alphabet,  *)
(* and the examples, under a credential that is absent, empty or valid.    *)
(***************************************************************************)
EmailAlphabet == {"a", " ", "@", "."}

EmailStrings ==
  Strings(EmailAlphabet, MaxEmailLen) \cup InvalidExamples \cup ValidExamples

InitEmail ==
  /\ Init
  /\ apiKey \in {Undefined, Str(<<>>), Str(<<"k">>)}

CallEmail ==
  /\ pc[TheCall] = "idle"
  /\ \E e \in EmailStrings :
       createContact(TheCall,
                     ContactData(Str(e), Undefined, Undefined, Undefined))
  /\ UNCHANGED << userVars, appVars, formVars >>

SpecEmail == InitEmail /\ [][CallEmail]_vars

(***************************************************************************)
(* config/launchdarkly.js: generateAnonymousUser and clearAnonymousUser.   *)
(***************************************************************************)
\* crypto.randomUUID(): the n-th draw; draws do not repeat
randomUUID(n) == <<"u", "u", "i", "d", "-", ToString(n)>>

\* `anonymous-${crypto.randomUUID()}`
anonymousKey(n) ==
  <<"a", "n", "o", "n", "y", "m", "o", "u", "s", "-">> \o randomUUID(n)

\* the object generateAnonymousUser returns
UserContext(userKey) == [kind |-> "user", key |-> userKey, anonymous |-> TRUE]

\* localStorage.getItem(storageKey) inside its try block: null when it throws
getItem == IF storageMode = "throws" THEN Null ELSE localStorage

\* a slip: the generated key is not written to localStorage
generateAnonymousUserNoStore ==
  /\ Len(users) < MaxUserCalls
  /\ userLog' =
       IF storageMode = "throws"
       THEN Append(userLog,
                   "localStorage unavailable, using session-only anonymous ID")
       ELSE userLog
  /\ IF ~Truthy(getItem)
     THEN /\ uuids' = uuids + 1
          /\ UNCHANGED localStorage
          /\ users' =
               Append(users, [op |-> "generate",
                              user |-> UserContext(Str(anonymousKey(uuids + 1)))])
     ELSE /\ users' =
               Append(users, [op |-> "generate", user |-> UserContext(getItem)])
          /\ UNCHANGED << uuids, localStorage >>
  /\ UNCHANGED storageMode

\* lines 15-42
generateAnonymousUser ==
  /\ Len(users) < MaxUserCalls
  /\ userLog' =
       IF storageMode = "throws"
       THEN Append(userLog,
                   "localStorage unavailable, using session-only anonymous ID")
       ELSE userLog
  /\ IF ~Truthy(getItem)
     THEN /\ uuids' = uuids + 1
          \* localStorage.setItem inside its try block
          /\ localStorage' =
               IF storageMode = "ok"
               THEN Str(anonymousKey(uuids + 1))
               ELSE localStorage
          /\ users' =
               Append(users, [op |-> "generate",
                              user |-> UserContext(Str(anonymousKey(uuids + 1)))])
     ELSE /\ users' =
               Append(users, [op |-> "generate", user |-> UserContext(getItem)])
          /\ UNCHANGED << uuids, localStorage >>
  /\ UNCHANGED storageMode

\* lines 47-53: localStorage.removeItem inside its try block
clearAnonymousUser ==
  /\ Len(users) < MaxUserCalls
  /\ localStorage' = IF storageMode = "throws" THEN localStorage ELSE Null
  /\ users' = Append(users, [op |-> "clear", user |-> Undefined])
  /\ UNCHANGED << storageMode, uuids, userLog >>

StorageModes == {"ok", "writeThrows", "throws"}

\* what an earlier visit may have left in localStorage
StoredKeys == {Null, Str(<<>>), Str(anonymousKey(0))}

InitUser ==
  /\ apiKey = Undefined
  /\ NoCalls
  /\ localStorage \in StoredKeys
  /\ storageMode \in StorageModes
  /\ uuids = 0
  /\ users = <<>>
  /\ userLog = <<>>
  /\ AppIdle
  /\ FormIdle

GenerateUser ==
  /\ generateAnonymousUser
  /\ UNCHANGED << adapterVars, appVars, formVars >>

ClearUser ==
  /\ clearAnonymousUser
  /\ UNCHANGED << adapterVars, appVars, formVars >>

NextUser == GenerateUser \/ ClearUser

SpecUser == InitUser /\ [][NextUser]_vars

(***************************************************************************)
(* config/launchdarkly.js: isValidClientID and getLDConfig.                *)
(***************************************************************************)
\* String.prototype.startsWith
startsWith(str, prefix) ==
  Len(str) >= Len(prefix) /\ SubSeq(str, 1, Len(prefix)) = prefix

UpperCase ==
  <<"A", "B", "C", "D", "E", "F", "G", "H", "I", "J", "K", "L", "M",
    "N", "O", "P", "Q", "R", "S", "T", "U", "V", "W", "X", "Y", "Z">>

LowerCase ==
  <<"a", "b", "c", "d", "e", "f", "g", "h", "i", "j", "k", "l", "m",
    "n", "o", "p", "q", "r", "s", "t", "u", "v", "w", "x", "y", "z">>

\* String.prototype.toLowerCase
toLowerCase(str) ==
  [i \in 1..Len(str) |->
     IF \E k \in 1..Len(UpperCase) : UpperCase[k] = str[i]
     THEN LowerCase[CHOOSE k \in 1..Len(UpperCase) : UpperCase[k] = str[i]]
     ELSE str[i]]

\* line 78
invalidPlaceholders ==
  { <<"y", "o", "u", "r", "-", "c", "l", "i", "e", "n", "t", "-", "i", "d">>,
    <<"y", "o", "u", "r", "-", "l", "a", "u", "n", "c", "h", "d", "a", "r",
      "k", "l", "y", "-", "c", "l", "i", "e", "n", "t", "-", "i", "d">>,
    <<"e", "x", "a", "m", "p", "l", "e">> }

\* a console.warn or console.error call
ConsoleLine(level, text) == [level |-> level, text |-> text]

\* line 61: !id || id === '' || id === 'undefined' || id === 'null'
isUnset(id) ==
  \/ ~Truthy(id)
  \/ id = Str(<<"u", "n", "d", "e", "f", "i", "n", "e", "d">>)
  \/ id = Str(<<"n", "u", "l", "l">>)

hasPlaceholder(id) ==
  \E placeholder \in invalidPlaceholders :
    includes(toLowerCase(id.s), placeholder)

\* lines 60-88
isValidClientID(id) ==
  IF isUnset(id) THEN FALSE
  ELSE IF startsWith(id.s, <<"t", "e", "s", "t", "-", "c", "l", "i", "e", "n", "t", "-", "i", "d", "-">>) THEN TRUE
  ELSE ~hasPlaceholder(id)

\* the console calls of isValidClientID, lines 71-84
isValidClientIDLog(id) ==
  IF isUnset(id) \/ startsWith(id.s, <<"t", "e", "s", "t", "-", "c", "l", "i", "e", "n", "t", "-", "i", "d", "-">>) THEN <<>>
  ELSE (IF Len(id.s) < 20
        THEN <<ConsoleLine("warn",
                           "LaunchDarkly client ID appears invalid (too short)")>>
        ELSE <<>>)
       \o (IF hasPlaceholder(id)
           THEN <<ConsoleLine("error",
                              "LaunchDarkly client ID contains placeholder text")>>
           ELSE <<>>)

\* lines 98-112: clientSideID of the configuration getLDConfig returns
validClientSideID(id) == IF isValidClientID(id) THEN id ELSE Undefined

\* the console calls of getLDConfig, lines 101-109
getLDConfigLog(id) ==
  isValidClientIDLog(id)
    \o (IF ~Truthy(validClientSideID(id)) /\ Truthy(id)
        THEN <<ConsoleLine("error",
                           "Invalid LaunchDarkly client ID configuration")>>
        ELSE <<>>)

(***************************************************************************)
(* main.jsx: initializeApp.                                                *)
(***************************************************************************)
\* calling the Promise that asyncWithLDProvider(config) returned
NotAFunction ==
  Err("TypeError", "TypeError",
      <<"a", "s", "y", "n", "c", "W", "i", "t", "h", "L", "D", "P", "r", "o",
        "v", "i", "d", "e", "r", "(", ".", ".", ".", ")", " ", "i", "s", " ",
        "n", "o", "t", " ", "a", " ", "f", "u", "n", "c", "t", "i", "o", "n">>)

\* what LaunchDarkly rejects with when its initialization fails
InitializationFailed ==
  Err("Error", "Error",
      <<"L", "D", " ", "i", "n", "i", "t", " ", "f", "a", "i", "l", "e", "d">>)

\* lines 73-92: createRoot(rootElement).render(...), if the element exists
render(component) ==
  /\ rendered' = IF rootElement THEN component ELSE rendered
  /\ appPc' = "done"

\* lines 64-68: the catch block; start-up continues with the unwrapped App
catchInitialization(lines, error) ==
  /\ appLog' =
       lines \o <<ConsoleLine("error", "LaunchDarkly initialization failed:")>>
  /\ captured' = Append(captured, error)
  /\ render("App")

\* lines 50-93, up to the await: `id` is ldConfig.clientSideID and `lines`
\* the console calls made so far
initializeApp(id, lines) ==
  IF Truthy(id)
  THEN /\ providerCalls' =
            Append(providerCalls,
                   [clientSideID |-> id, useCamelCaseFlagKeys |-> FALSE])
       /\ IF provider.returns = "promise"
          \* asyncWithLDProvider({...})(App): the call of a Promise throws
          THEN catchInitialization(lines, NotAFunction)
          \* a function: its result is awaited
          ELSE /\ appPc' = "awaitProvider"
               /\ appLog' = lines
               /\ UNCHANGED << rendered, captured >>
  ELSE /\ appLog' =
            lines \o <<ConsoleLine("warn",
                                   "LaunchDarkly client ID not configured. Feature flags will be unavailable.")>>
       /\ render("App")
       /\ UNCHANGED << providerCalls, captured >>

\* lines 46-47 and 95-100: the module is evaluated
Load ==
  /\ appPc = "load"
  /\ clientSideID' = validClientSideID(clientIdEnv)
  \* getLDConfig: context || generateAnonymousUser()
  /\ generateAnonymousUser
  /\ IF readyState = "loading"
     \* document.addEventListener('DOMContentLoaded', initializeApp)
     THEN /\ appPc' = "waitDom"
          /\ appLog' = appLog \o getLDConfigLog(clientIdEnv)
          /\ UNCHANGED << providerCalls, rendered, captured >>
     ELSE initializeApp(validClientSideID(clientIdEnv),
                        appLog \o getLDConfigLog(clientIdEnv))
  /\ UNCHANGED << clientIdEnv, readyState, rootElement, provider >>
  /\ UNCHANGED << adapterVars, formVars >>

\* the DOMContentLoaded event
DOMContentLoaded ==
  /\ appPc = "waitDom"
  /\ initializeApp(clientSideID, appLog)
  /\ UNCHANGED << clientIdEnv, readyState, rootElement, provider,
                  clientSideID >>
  /\ UNCHANGED << adapterVars, userVars, formVars >>

\* line 56: the awaited promise resolves to the wrapped component
ProviderResolved ==
  /\ appPc = "awaitProvider"
  /\ provider.initialization = "succeeds"
  /\ render("AppWithFeatureFlags")
  /\ UNCHANGED << clientIdEnv, readyState, rootElement, provider,
                  clientSideID, providerCalls, appLog, captured >>
  /\ UNCHANGED << adapterVars, userVars, formVars >>

\* line 64: the awaited promise rejects
ProviderRejected ==
  /\ appPc = "awaitProvider"
  /\ provider.initialization = "rejects"
  /\ catchInitialization(appLog, InitializationFailed)
  /\ UNCHANGED << clientIdEnv, readyState, rootElement, provider,
                  clientSideID, providerCalls >>
  /\ UNCHANGED << adapterVars, userVars, formVars >>

\* the values of VITE_LAUNCHDARKLY_CLIENT_ID
ClientIdEnvs ==
  { Undefined, Str(<<>>), Str(<<"u", "n", "d", "e", "f", "i", "n", "e", "d">>), Str(<<"n", "u", "l", "l">>),
    Str(<<"t", "e", "s", "t", "-", "c", "l", "i", "e", "n", "t", "-", "i", "d", "-", "1", "2", "3">>),
    Str(<<"6", "4", "a", "8", "f", "1", "2", "3", "4", "5", "6", "7", "8", "9", "0", "a", "b", "c", "d", "e", "f", "1", "2", "3">>),
    Str(<<"a", "b", "c">>),
    Str(<<"y", "o", "u", "r", "-", "c", "l", "i", "e", "n", "t", "-", "i", "d">>),
    Str(<<"Y", "o", "u", "r", "-", "C", "l", "i", "e", "n", "t", "-", "I", "D">>) }

\* what asyncWithLDProvider(config) returns: the Promise of a provider
\* component, or a function that wraps a component; and whether the
\* initialization of LaunchDarkly succeeds
Providers ==
  [returns : {"promise", "function"}, initialization : {"succeeds", "rejects"}]

InitApp ==
  /\ apiKey = Undefined
  /\ NoCalls
  /\ UserIdle
  /\ FormIdle
  /\ clientIdEnv \in ClientIdEnvs
  /\ readyState \in {"loading", "complete"}
  /\ rootElement \in BOOLEAN
  /\ provider \in Providers
  /\ appPc = "load"
  /\ clientSideID = Undefined
  /\ providerCalls = <<>>
  /\ rendered = "nothing"
  /\ appLog = <<>>
  /\ captured = <<>>

NextApp == Load \/ DOMContentLoaded \/ ProviderResolved \/ ProviderRejected

SpecApp == InitApp /\ [][NextApp]_vars

(***************************************************************************)
(* components/ContactForm.jsx: the contact form.                           *)
(***************************************************************************)
\* <input type="email">: the value has one "@" with text on both sides and
\* no white space
typeMismatch(email) ==
  ~ \E i \in 2..(Len(email) - 1) :
      /\ email[i] = "@"
      /\ \A k \in 1..Len(email) :
           /\ k # i => email[k] # "@"
           /\ email[k] \notin WhiteSpace

\* the constraint validation of the form: the three fields are `required`
checkValidity(f) ==
  /\ f.name # <<>>
  /\ f.email # <<>>
  /\ f.message # <<>>
  /\ ~typeMismatch(f.email)

\* the form is on the page (line 7) and its button is enabled (line 78)
CanSubmit == ~formState.succeeded /\ ~formState.submitting

\* a slip: the handler creates the Brevo contact whatever the flag says
onSubmitCallsBrevo ==
  /\ submitted' = Append(submitted, fields)
  /\ formState' = [formState EXCEPT !.submitting = TRUE, !.errors = <<>>]
  /\ brevoCalls' =
       Append(brevoCalls,
              ContactData(Str(fields.email), Str(fields.name), Undefined,
                          Obj({<<"message", Str(fields.message)>>}, TRUE)))
  /\ UNCHANGED formLog

\* line 26: <form onSubmit={handleSubmit}>, Formspree's handler and nothing
\* else; the component reads no flag and makes no createContact call
onSubmit ==
  /\ submitted' = Append(submitted, fields)
  /\ formState' = [formState EXCEPT !.submitting = TRUE, !.errors = <<>>]
  /\ UNCHANGED << brevoCalls, formLog >>

\* what is typed into the fields
Names == { <<>>, <<"J", "o", "h", "n", " ", "D", "o", "e">> }
FormEmails ==
  { <<>>, <<"i", "n", "v", "a", "l", "i", "d", "-", "e", "m", "a", "i", "l">>,
    <<"j", "o", "h", "n", "@", "e", "x", "a", "m", "p", "l", "e", ".", "c", "o", "m">> }
Messages == { <<>>, <<"T", "e", "s", "t", " ", "m", "e", "s", "s", "a", "g", "e">> }

\* the user types into the fields
Type ==
  /\ CanSubmit
  /\ \E n \in Names : \E m \in FormEmails : \E msg \in Messages :
       /\ [name |-> n, email |-> m, message |-> msg] # fields
       /\ fields' = [name |-> n, email |-> m, message |-> msg]
  /\ UNCHANGED << flags, formState, submitted, brevoCalls, formLog, adapter >>
  /\ UNCHANGED << adapterVars, userVars, appVars >>

\* the user clicks the button: the browser validates, then fires onSubmit
Submit ==
  /\ CanSubmit
  /\ checkValidity(fields)
  /\ Len(submitted) < MaxSubmits
  /\ onSubmit
  /\ UNCHANGED << flags, fields, adapter >>
  /\ UNCHANGED << adapterVars, userVars, appVars >>

\* Formspree accepted the submission: state.succeeded
FormspreeSucceeded ==
  /\ formState.submitting
  /\ formState' = [formState EXCEPT !.submitting = FALSE, !.succeeded = TRUE]
  /\ UNCHANGED << flags, fields, submitted, brevoCalls, formLog, adapter >>
  /\ UNCHANGED << adapterVars, userVars, appVars >>

\* Formspree refused the submission: state.errors
FormspreeFailed ==
  /\ formState.submitting
  /\ formState' =
       [formState EXCEPT !.submitting = FALSE, !.errors = <<"FORM_ERROR">>]
  /\ UNCHANGED << flags, fields, submitted, brevoCalls, formLog, adapter >>
  /\ UNCHANGED << adapterVars, userVars, appVars >>

\* what useFlags() may return
FlagSets ==
  { EmptyObject,
    Obj({<<"brevoIntegration", Undefined>>}, TRUE),
    Obj({<<"brevoIntegration", Bool(FALSE)>>}, TRUE),
    Obj({<<"brevoIntegration", Bool(TRUE)>>}, TRUE),
    Obj({<<"brevoIntegration", Obj({<<"value", Bool(FALSE)>>}, TRUE)>>}, TRUE),
    Obj({<<"brevoIntegration", Obj({<<"value", Bool(TRUE)>>}, TRUE)>>}, TRUE) }

\* createContact resolves to Success, resolves to Failure, or rejects
AdapterAnswers == {"succeeds", "fails", "rejects"}

InitForm ==
  /\ apiKey = Undefined
  /\ NoCalls
  /\ UserIdle
  /\ AppIdle
  /\ flags \in FlagSets
  /\ adapter \in AdapterAnswers
  /\ fields = [name |-> <<>>, email |-> <<>>, message |-> <<>>]
  /\ formState = [succeeded |-> FALSE, submitting |-> FALSE, errors |-> <<>>]
  /\ submitted = <<>>
  /\ brevoCalls = <<>>
  /\ formLog = <<>>

NextForm == Type \/ Submit \/ FormspreeSucceeded \/ FormspreeFailed

SpecForm == InitForm /\ [][NextForm]_vars

(***************************************************************************)
(* The contract of createContact.                                          *)
(***************************************************************************)
PreconditionMessages ==
  {KeyEmptyMessage, KeyMissingMessage, EmailRequiredMessage,
   EmailFormatMessage}

CredentialMessages == {KeyEmptyMessage, KeyMissingMessage}

EmailMessages == {EmailRequiredMessage, EmailFormatMessage}

\* the call has returned a Failure with one of these messages
ReturnedFailure(c, messages) ==
  /\ pc[c] = "returned"
  /\ result[c] \in { Failure(m) : m \in messages }

\* the call was given an object, and has started
CalledWithObject(c) == pc[c] # "idle" /\ contactData[c].t = "object"

\* C1: createContact never rejects: whatever the submission and whatever
\* the network call does (any status and body, an unparseable body, a
\* rejection with any value), the promise of a call given a submission
\* object resolves and never rejects.
C1_NeverRejects ==
  \A c \in CallIds : CalledWithObject(c) => pc[c] # "rejected"

\* C2: a call that returns a configuration Failure or an input-validation
\* Failure has issued no network request.
C2_NoRequestOnPreconditionFailure ==
  \A c \in CallIds :
    ReturnedFailure(c, PreconditionMessages) => requests[c] = <<>>

C2_Witness ==
  /\ ReturnedFailure(TheCall, {EmailFormatMessage})
  /\ requests[TheCall] = <<>>

\* the preconditions of the call all passed: it went on to the try block
PreconditionsPassed(c) ==
  /\ CalledWithObject(c)
  /\ ~ReturnedFailure(c, PreconditionMessages)

\* C3 as stated: a call whose preconditions all pass issues exactly one
\* network request in its whole lifetime.
C3_ExactlyOneRequest ==
  \A c \in CallIds : PreconditionsPassed(c) => Len(requests[c]) = 1

\* C3 as amended: a call whose preconditions all pass issues at most one
\* network request in its whole lifetime, whatever the outcome (no retry),
\* and exactly one unless serialising the request body throws; a call whose
\* body cannot be serialised issues none and returns the catch-all Failure.
C3_AtMostOneRequest ==
  \A c \in CallIds :
    PreconditionsPassed(c) =>
      /\ Len(requests[c]) <= 1
      /\ (Len(requests[c]) = 0) <=>
           (contactData[c].attributes.t = "object"
              /\ ~contactData[c].attributes.serialisable)
      /\ Len(requests[c]) = 0 =>
           ReturnedFailure(c, {"Unexpected error occurred"})

C3_Witness ==
  /\ ReturnedFailure(TheCall, {"Network error"})
  /\ Len(requests[TheCall]) = 1

IsSuccessVariant(r) ==
  /\ DOMAIN r = {"success", "data"}
  /\ r.success = TRUE

IsFailureVariant(r) ==
  /\ DOMAIN r = {"success", "error"}
  /\ r.success = FALSE
  /\ r.error \in STRING

\* C4: every value createContact returns is one of the two variants:
\* success true with data and no error, or success false with a string
\* error and no data.
C4_TwoVariants ==
  \A c \in CallIds :
    pc[c] = "returned" =>
      IsSuccessVariant(result[c]) \/ IsFailureVariant(result[c])

C4_Witness ==
  /\ pc[TheCall] = "returned"
  /\ IsFailureVariant(result[TheCall])
  /\ response[TheCall] = 401

\* C5: an empty-string credential yields "Brevo API key cannot be empty",
\* an undefined or null credential yields "Brevo API key is not
\* configured...", and neither yields the other's message.
C5_CredentialMessages ==
  \A c \in CallIds :
    CalledWithObject(c) =>
      /\ apiKey = Str(<<>>) => ReturnedFailure(c, {KeyEmptyMessage})
      /\ apiKey.t \in {"undefined", "null"} =>
           ReturnedFailure(c, {KeyMissingMessage})

C5_Witness ==
  /\ apiKey = Str(<<>>)
  /\ ReturnedFailure(TheCall, {KeyEmptyMessage})

\* C6 as stated: "Brevo API key cannot be empty" is returned exactly when
\* the credential is the empty string (no trimming).
C6_EmptyOnlyForEmptyString ==
  \A c \in CallIds :
    CalledWithObject(c) =>
      (ReturnedFailure(c, {KeyEmptyMessage}) <=> apiKey = Str(<<>>))

\* only whitespace, or nothing at all
Blank(str) == \A i \in 1..Len(str) : str[i] \in WhiteSpace

\* C6 as amended: the emptiness check trims: "Brevo API key cannot be
\* empty" is returned exactly when the credential is a string that is empty
\* or made only of whitespace, so a whitespace-only credential does not pass
\* the credential checks.
C6_EmptyForBlankString ==
  \A c \in CallIds :
    CalledWithObject(c) =>
      (ReturnedFailure(c, {KeyEmptyMessage})
         <=> (apiKey.t = "string" /\ Blank(apiKey.s)))

C6_Witness ==
  /\ apiKey = Str(<<" ">>)
  /\ ReturnedFailure(TheCall, {KeyEmptyMessage})

\* C7: the credential is checked before the email: with an absent or empty
\* credential the result is the credential Failure whatever the email, and
\* an email Failure is returned only when the credential checks passed.
C7_CredentialBeforeEmail ==
  \A c \in CallIds :
    CalledWithObject(c) =>
      /\ (apiKey.t \in {"undefined", "null"} \/ apiKey = Str(<<>>)) =>
           ReturnedFailure(c, CredentialMessages)
      /\ ReturnedFailure(c, EmailMessages) =>
           /\ Truthy(apiKey)
           /\ ~(apiKey.t = "string" /\ Blank(apiKey.s))

C7_Witness ==
  /\ CalledWithObject(TheCall)
  /\ apiKey = Undefined
  /\ contactData[TheCall].email = Str(<<"u", "s", "e", "r", "@">>)
  /\ ReturnedFailure(TheCall, {KeyMissingMessage})

\* a credential that passes the credential checks
ValidCredential == Truthy(apiKey) /\ ~(apiKey.t = "string" /\ Blank(apiKey.s))

\* C8: with a valid credential, an email that is missing, not a string or
\* the empty string yields "Email is required and must be a non-empty
\* string".
C8_EmailRequired ==
  \A c \in CallIds :
    (CalledWithObject(c) /\ ValidCredential
       /\ (contactData[c].email.t # "string"
             \/ contactData[c].email = Str(<<>>))) =>
      ReturnedFailure(c, {EmailRequiredMessage})

C8_Witness ==
  /\ CalledWithObject(TheCall)
  /\ ValidCredential
  /\ contactData[TheCall].email = Num(<<"5">>)
  /\ ReturnedFailure(TheCall, {EmailRequiredMessage})

\* the string without its leading and trailing whitespace
Stripped(str) ==
  LET solid == { i \in 1..Len(str) : str[i] \notin WhiteSpace }
  IN IF solid = {} THEN <<>>
     ELSE SubSeq(str,
                 CHOOSE i \in solid : \A j \in solid : i <= j,
                 CHOOSE i \in solid : \A j \in solid : j <= i)

\* local@domain.tld: no whitespace, a single @ after a non-empty local
\* part, and in the domain a dot with a character on each side
LocalAtDomainTld(str) ==
  /\ \A i \in 1..Len(str) : str[i] \notin WhiteSpace
  /\ Cardinality({ i \in 1..Len(str) : str[i] = "@" }) = 1
  /\ LET at == CHOOSE i \in 1..Len(str) : str[i] = "@"
     IN /\ at > 1
        /\ \E d \in (at + 2)..(Len(str) - 1) : str[d] = "."

\* C9: with a valid credential, "Invalid email format" is returned exactly
\* for the non-empty string emails whose trimmed value is not of the shape
\* local@domain.tld; the listed invalid examples are rejected and the listed
\* valid examples pass validation (the request is issued).
C9_InvalidEmailFormat ==
  \A c \in CallIds :
    (CalledWithObject(c) /\ ValidCredential
       /\ contactData[c].email.t = "string"
       /\ contactData[c].email.s # <<>>) =>
      /\ ReturnedFailure(c, {EmailFormatMessage})
           <=> ~LocalAtDomainTld(Stripped(contactData[c].email.s))
      /\ contactData[c].email.s \in InvalidExamples =>
           ReturnedFailure(c, {EmailFormatMessage})
      /\ contactData[c].email.s \in ValidExamples =>
           /\ ~ReturnedFailure(c, PreconditionMessages)
           /\ Len(requests[c]) = 1

C9_Witness ==
  /\ CalledWithObject(TheCall)
  /\ ValidCredential
  /\ contactData[TheCall].email = Str(<<"a", "@", "a", ".">>)
  /\ ReturnedFailure(TheCall, {EmailFormatMessage})

\* C10: the trimmed email is used after validation: the email of the
\* outgoing request body and the email of every Success result equal the
\* input email without its leading and trailing whitespace.
C10_TrimmedEmailUsed ==
  \A c \in CallIds :
    /\ \A i \in 1..Len(requests[c]) :
         requests[c][i].body["email"] = Str(Stripped(contactData[c].email.s))
    /\ (pc[c] = "returned" /\ IsSuccessVariant(result[c])) =>
         result[c].data.email = Str(Stripped(contactData[c].email.s))

C10_Witness ==
  /\ CalledWithObject(TheCall)
  /\ contactData[TheCall].email =
       Str(<<" ", " ">> \o UserAtExample \o <<" ", " ">>)
  /\ pc[TheCall] = "returned"
  /\ IsSuccessVariant(result[TheCall])
  /\ result[TheCall].data.email = Str(UserAtExample)

(***************************************************************************)
(* The interpretation of the response.                                     *)
(***************************************************************************)
\* the parsed response body is an object with an id property
HasId(v) == v.t = "object" /\ \E f \in v.fields : f[1] = "id"

\* the call has returned after response.json() resolved
ReturnedAfterBody(c) ==
  /\ pc[c] = "returned"
  /\ response[c] # 0
  /\ caught[c] = <<>>

\* the call returned Success with the id of the response body and the
\* trimmed email
SuccessWithIdAndEmail(c) ==
  /\ IsSuccessVariant(result[c])
  /\ \E f \in responseBody[c].fields :
       f[1] = "id" /\ result[c].data.id = f[2]
  /\ result[c].data.email = Str(Stripped(contactData[c].email.s))

Settled(c) == pc[c] \in {"returned", "rejected"}

\* C12: an HTTP 409 response is a successful outcome, never a Failure: the
\* call returns Success with duplicate true, the trimmed email, and the id
\* of the response body, or null when the body carries no id.
C12_ConflictIsSuccess ==
  \A c \in CallIds :
    (Settled(c) /\ response[c] = 409) =>
      /\ pc[c] = "returned"
      /\ IsSuccessVariant(result[c])
      /\ "duplicate" \in DOMAIN result[c].data
      /\ result[c].data.duplicate = TRUE
      /\ result[c].data.email = Str(Stripped(contactData[c].email.s))
      /\ IF HasId(responseBody[c])
         THEN \E f \in responseBody[c].fields :
                f[1] = "id" /\ result[c].data.id = f[2]
         ELSE result[c].data.id = Null

\* the message the table gives for a status
TableMessage(status) ==
  CASE status = 400 -> "Bad request - validation error"
    [] status = 401 -> "Invalid API key"
    [] status = 403 -> "Insufficient API key permissions"
    [] status = 429 -> "Rate limit exceeded"
    [] status = 500 -> "Brevo server error"
    [] status = 503 -> "Brevo service unavailable"
    [] OTHER -> "API error: " \o ToString(status)

\* a response was received with a status outside 200-299 other than 409
ErrorStatus(c) ==
  /\ response[c] # 0
  /\ ~(response[c] >= 200 /\ response[c] <= 299)
  /\ response[c] # 409

\* C13: for a non-2xx response other than 409 the Failure message is the
\* one the fixed table gives for the status, and "API error: N" for a
\* status N the table does not hold.
C13_StatusTable ==
  \A c \in CallIds :
    (Settled(c) /\ ErrorStatus(c)) =>
      ReturnedFailure(c, {TableMessage(response[c])})

(***************************************************************************)
(* The timeout.                                                            *)
(***************************************************************************)
\* C14: when the timer fires while the request is still pending, the
\* request is aborted and the call returns Failure "Request timeout"; once
\* the request has completed with a response, its timer is cleared and the
\* request is never aborted.
C14_TimeoutAborts ==
  [][\A c \in CallIds :
       /\ (pc[c] = "awaitFetch" /\ timeoutId[c] = "armed"
             /\ timeoutId'[c] = "fired") =>
            /\ aborted'[c]
            /\ pc'[c] = "returned"
            /\ result'[c] = Failure("Request timeout")
       /\ response'[c] # 0 =>
            /\ ~aborted'[c]
            /\ timeoutId'[c] = "cleared"]_vars

C14_Witness ==
  /\ timeoutId[TheCall] = "fired"
  /\ aborted[TheCall]
  /\ response[TheCall] = 0
  /\ caught[TheCall] = <<AbortError>>
  /\ ReturnedFailure(TheCall, {"Request timeout"})

\* C15: every call eventually returns a result: each wait on the network
\* (the pending request and the reading of the response body) is bounded by
\* the timeout, so a remote that never finishes responding cannot keep a
\* call pending forever.
C15_EveryCallReturns ==
  \A c \in CallIds : (pc[c] # "idle") ~> Settled(c)

(***************************************************************************)
(* The catch block.                                                        *)
(***************************************************************************)
\* the fetch promise of the call rejected with this value
FetchRejectedWith(c, error) ==
  /\ requests[c] # <<>>
  /\ response[c] = 0
  /\ caught[c] = <<error>>

\* fetch reports a failure of the network by rejecting with a TypeError
NetworkFailure(c, error) ==
  /\ FetchRejectedWith(c, error)
  /\ error.t = "object"
  /\ error.class = "TypeError"

\* C16: every generic network-level failure of the request (connection
\* refused, DNS failure: fetch rejecting with its TypeError, which is
\* neither an abort nor a parse error) yields Failure "Network error".
C16_NetworkError ==
  \A c \in CallIds :
    \A i \in 1..Len(caught[c]) :
      (NetworkFailure(c, caught[c][i])
         /\ caught[c][i].name # "AbortError") =>
        ReturnedFailure(c, {"Network error"})

\* the message the stated precedence gives for a thrown value
PrecedenceMessage(c, error) ==
  IF error.t = "object" /\ error.name = "AbortError" THEN "Request timeout"
  ELSE IF NetworkFailure(c, error) THEN "Network error"
  ELSE IF error.t = "object" /\ error.class = "SyntaxError"
  THEN "Invalid API response format"
  ELSE "Unexpected error occurred"

\* C17: thrown errors are classified with a fixed precedence: AbortError
\* gives "Request timeout", otherwise a network failure gives "Network
\* error", otherwise a SyntaxError gives "Invalid API response format", and
\* every remaining exception gives "Unexpected error occurred"; each thrown
\* error yields exactly one of the four messages.
C17_CatchPrecedence ==
  \A c \in CallIds :
    \A i \in 1..Len(caught[c]) :
      ReturnedFailure(c, {PrecedenceMessage(c, caught[c][i])})

\* C18: the credential never appears in any output of createContact: no
\* argument of a diagnostic log line and no id or email of a returned value
\* contains the credential string, whatever the response and whatever the
\* message of the thrown error.
C18_CredentialNeverInOutput ==
  \A c \in CallIds :
    (apiKey.t = "string" /\ ~Blank(apiKey.s)) =>
      \A i \in 1..Len(log[c]) :
        \A j \in 1..Len(log[c][i].args) :
          log[c][i].args[j].t = "string" =>
            ~includes(log[c][i].args[j].s, apiKey.s)

\* C19: createContact writes a diagnostic log line exactly on protocol,
\* transport, parsing and catch-all failures: a call that returns a
\* configuration or input-validation Failure, or Success (the 409
\* duplicate included), has logged nothing, and a call that returns any
\* other Failure has logged one line.
C19_LogsOnlyOnErrors ==
  \A c \in CallIds :
    /\ pc[c] \in {"idle", "awaitFetch", "awaitJson"} => log[c] = <<>>
    /\ pc[c] = "returned" =>
         Len(log[c]) =
           (IF IsFailureVariant(result[c])
                 /\ result[c].error \notin PreconditionMessages
            THEN 1 ELSE 0)

C19_Witness ==
  /\ ReturnedFailure(TheCall, {"Network error"})
  /\ log[TheCall] = <<LogLine("Brevo API network error", <<>>)>>

(***************************************************************************)
(* The request body.                                                       *)
(***************************************************************************)
\* the field was provided with a value that is not empty
Provided(v) == v.t \notin {"undefined", "null"} /\ v # Str(<<>>)

\* the body holds the key exactly when the field was provided, and then with
\* the value provided
OptionalField(b, key, given) ==
  /\ key \in DOMAIN b <=> Provided(given)
  /\ key \in DOMAIN b => b[key] = given

\* C20: the outgoing request body contains firstName (lastName) only if
\* that field was provided, and then with the provided value; an omitted
\* field is never sent as null or as an empty value; attributes is always
\* present, and is {} when the submission has no attributes.
C20_OptionalFields ==
  \A c \in CallIds :
    \A i \in 1..Len(requests[c]) :
      LET b == requests[c][i].body
      IN /\ OptionalField(b, "firstName", contactData[c].firstName)
         /\ OptionalField(b, "lastName", contactData[c].lastName)
         /\ "attributes" \in DOMAIN b
         /\ contactData[c].attributes = Undefined =>
              b["attributes"] = Obj({}, TRUE)
         /\ contactData[c].attributes # Undefined =>
              b["attributes"] = contactData[c].attributes

C20_Witness ==
  /\ Len(requests[TheCall]) = 1
  /\ contactData[TheCall].firstName = Str(<<"A", "l">>)
  /\ contactData[TheCall].lastName = Undefined
  /\ contactData[TheCall].attributes = Undefined
  /\ DOMAIN requests[TheCall][1].body = {"email", "firstName", "attributes"}

(***************************************************************************)
(* Concurrent calls and the configuration.                                 *)
(***************************************************************************)
\* everything the adapter holds about one call
CallState(c) ==
  << pc[c], contactData[c], body[c], requests[c], timeoutId[c], aborted[c],
     response[c], result[c], thrown[c], log[c], responseBody[c], caught[c] >>

\* what a call was given: its submission, what the network answered it, and
\* whether its own timer fired
CallInputs(c) ==
  << contactData[c], response[c], responseBody[c], caught[c],
     timeoutId[c] = "fired" >>

\* C21: concurrent calls on the same adapter are fully independent: every
\* step (a timer firing, a failure, a response) changes the state of one
\* call only, so the timeout or failure of one call never aborts or changes
\* the result of another, and two calls given the same submission and the
\* same answers end the same way, under every interleaving.
C21_CallsIndependent ==
  [][/\ \A c \in CallIds : \A d \in CallIds \ {c} :
          CallState(c)' # CallState(c) => CallState(d)' = CallState(d)
     /\ \A c \in CallIds : \A d \in CallIds \ {c} :
          (Settled(c)' /\ Settled(d)' /\ CallInputs(c)' = CallInputs(d)') =>
            /\ pc'[c] = pc'[d]
            /\ result'[c] = result'[d]
            /\ thrown'[c] = thrown'[d]]_vars

C21_Witness ==
  /\ \A c \in CallIds : pc[c] = "returned" /\ requests[c] # <<>>
  /\ \E c \in CallIds : \E d \in CallIds \ {c} :
       /\ timeoutId[c] = "fired" /\ aborted[c]
       /\ result[c] = Failure("Request timeout")
       /\ timeoutId[d] = "cleared" /\ ~aborted[d]
       /\ IsSuccessVariant(result[d])

\* C22: the adapter's configuration is immutable: no step of any call
\* changes the credential or the base URL, and every request goes to the
\* fixed endpoint with the credential given at construction.
C22_ConfigurationImmutable ==
  [][/\ apiKey' = apiKey
     /\ baseUrl' = baseUrl
     /\ \A c \in CallIds : \A i \in 1..Len(requests'[c]) :
          /\ requests'[c][i].url = "https://api.brevo.com/v3/contacts"
          /\ requests'[c][i].method = "POST"
          /\ requests'[c][i].apiKeyHeader = apiKey]_vars

C22_Witness ==
  /\ apiKey = Str(<<" ", "k">>)
  /\ Len(requests[TheCall]) = 1
  /\ requests[TheCall][1].apiKeyHeader = Str(<<" ", "k">>)
  /\ pc[TheCall] = "returned"

(***************************************************************************)
(* The response body and the status.                                       *)
(***************************************************************************)
\* C26: for a response with a non-2xx status other than 409 the Failure
\* message is determined by the status alone, whether or not the response
\* body parses as JSON; "Invalid API response format" is never returned
\* for such a response.
C26_StatusAloneDecides ==
  \A c \in CallIds :
    (ErrorStatus(c) /\ Settled(c)) =>
      /\ pc[c] = "returned"
      /\ result[c] # Failure("Invalid API response format")
      /\ \A d \in CallIds :
           (ErrorStatus(d) /\ Settled(d) /\ response[d] = response[c]) =>
             result[d] = result[c]
      /\ result[c] = Failure(TableMessage(response[c]))

\* C27: on every path by which a call returns after starting a request,
\* the timer it armed has been cancelled: no timer of a call is still
\* pending, and no abort fires, after the call has returned.
C27_NoTimerAfterReturn ==
  \A c \in CallIds :
    (pc[c] = "returned" /\ requests[c] # <<>>) =>
      /\ timeoutId[c] # "armed"
      /\ aborted[c] => caught[c] = <<AbortError>>

\* response.json() resolved: the body parsed to a value
BodyParsed(c) == responseBody[c] # Undefined

\* C28: for a 2xx response whose body parses as JSON to any value (an
\* object with an id, one without, or a non-object such as null) the call
\* returns Success; a Failure after a 2xx response occurs only when the
\* body cannot be parsed.
C28_ParsedSuccessBody ==
  \A c \in CallIds :
    (Settled(c) /\ response[c] # 0 /\ responseOk(response[c])) =>
      /\ BodyParsed(c) => (pc[c] = "returned" /\ IsSuccessVariant(result[c]))
      /\ ~IsSuccessVariant(result[c]) => ~BodyParsed(c)

(***************************************************************************)
(* The anonymous user.                                                     *)
(***************************************************************************)
\* the i-th call was generateAnonymousUser
Generated(i) == users[i].op = "generate"

\* no clearAnonymousUser between the i-th and the j-th call
NoClearBetween(i, j) == \A k \in i..j : users[k].op # "clear"

\* the string starts with "anonymous-"
IsAnonymousKey(v) ==
  /\ v.t = "string"
  /\ Len(v.s) > 10
  /\ SubSeq(v.s, 1, 10) =
       <<"a", "n", "o", "n", "y", "m", "o", "u", "s", "-">>

\* C29: with storage available generateAnonymousUser is persistent: after a
\* first call every later call returns the same key until
\* clearAnonymousUser is called; the first call after clearAnonymousUser
\* generates a new key and stores it; when storage reads or writes throw,
\* the call still returns a user with an anonymous key.
C29_AnonymousUserPersistent ==
  /\ storageMode = "ok" =>
       /\ \A i \in 1..Len(users) : \A j \in i..Len(users) :
            (Generated(i) /\ Generated(j) /\ NoClearBetween(i, j)) =>
              users[j].user.key = users[i].user.key
       /\ \A j \in 2..Len(users) :
            (Generated(j) /\ users[j - 1].op = "clear") =>
              /\ IsAnonymousKey(users[j].user.key)
              /\ \A i \in 1..(j - 1) :
                   Generated(i) => users[i].user.key # users[j].user.key
       /\ (users # <<>> /\ Generated(Len(users))) =>
            localStorage = users[Len(users)].user.key
  /\ storageMode # "ok" =>
       \A i \in 1..Len(users) :
         Generated(i) =>
           /\ users[i].user.anonymous
           /\ users[i].user.kind = "user"
           /\ storageMode = "throws" => IsAnonymousKey(users[i].user.key)
           /\ Truthy(users[i].user.key)

C29_Witness ==
  /\ storageMode = "ok"
  /\ Len(users) = 4
  /\ Generated(1) /\ Generated(2) /\ users[3].op = "clear" /\ Generated(4)
  /\ users[1].user.key = users[2].user.key
  /\ users[4].user.key # users[1].user.key
  /\ localStorage = users[4].user.key

(***************************************************************************)
(* The start-up of the application.                                        *)
(***************************************************************************)
\* the failure of the provider was reported and start-up went on
InitializationReported ==
  /\ captured # <<>>
  /\ \E i \in 1..Len(appLog) :
       appLog[i] = ConsoleLine("error", "LaunchDarkly initialization failed:")

\* C30: start-up renders the App on every path on which the root element
\* exists: wrapped with the feature-flag provider when a client ID is
\* configured and the initialization of the provider succeeds, and
\* unwrapped when no client ID is configured (the provider is then never
\* initialized) or when the initialization rejects (the error is reported
\* and start-up continues).
C30_StartUpRenders ==
  (appPc = "done" /\ rootElement) =>
    /\ rendered \in {"App", "AppWithFeatureFlags"}
    /\ (Truthy(clientSideID) /\ provider.initialization = "succeeds") =>
         rendered = "AppWithFeatureFlags"
    /\ ~Truthy(clientSideID) =>
         (rendered = "App" /\ providerCalls = <<>>)
    /\ (Truthy(clientSideID) /\ provider.initialization = "rejects") =>
         (rendered = "App" /\ InitializationReported)

(***************************************************************************)
(* The contact form and the feature flag.                                  *)
(***************************************************************************)
\* the value of the Brevo flag in what useFlags() returned; undefined when
\* the flag is absent
FlagValue ==
  IF \E f \in flags.fields : f[1] = "brevoIntegration"
  THEN (CHOOSE f \in flags.fields : f[1] = "brevoIntegration")[2]
  ELSE Undefined

\* the flag is on: a truthy value, or an object whose `value` is truthy
FlagOn ==
  IF FlagValue.t = "object"
  THEN \E f \in FlagValue.fields : f[1] = "value" /\ Truthy(f[2])
  ELSE Truthy(FlagValue)

ContactOf(f) ==
  ContactData(Str(f.email), Str(f.name), Undefined,
              Obj({<<"message", Str(f.message)>>}, TRUE))

====
